---- MODULE Spec2Model ----
(***************************************************************************)
(* Model of the Comcopilot speech-analysis service:                        *)
(*   src/comcopilotapp.py   the request handler and perform_analysis       *)
(*   src/analysis_utils.py  the analyzers, classifiers, segmenter, scorer  *)
(*                                                                         *)
(* Numbers that are floats in the program are fixed-point integers here:   *)
(* scores and averages in tenths (Fixed(1) is 1.0), times of the silence   *)
(* scan in hundredths of a second, times of the classifier and of the      *)
(* segmenter in whole ticks.                                               *)
(***************************************************************************)
EXTENDS Integers, Sequences, FiniteSets, TLC

VARIABLES
    \* ---- request pipeline (comcopilotapp.py)
    pc,                     \* position of the request in analyze_video / perform_analysis
    tmp_files,              \* temporary files of the request that exist on disk
    audio_file_path,        \* "" when the conversion failed, "wav" otherwise
    pitch_analysis_result,  \* what analyze_pitch returned
    pitch_result,           \* local of perform_analysis
    volume_result,          \* local of perform_analysis
    silence_result,         \* local of perform_analysis
    pronunciation_score,    \* local of perform_analysis
    articulation_rate,      \* local of perform_analysis
    analysis_results,       \* the dictionary perform_analysis returns
    failed_at,              \* the step whose exception reached line 104, or "none"
    response,               \* what analyze_video hands to the transport
    \* ---- analyze_silences (analysis_utils.py, lines 64-98)
    times,                  \* frame times of the intensity contour, hundredths of a second
    intensity_values,       \* frame intensities, dB
    frame,                  \* index of the next frame of the loop of line 79
    current_silence,        \* <<>> for None, <<start>> for [start, None]
    silences,               \* the list being built
    sil_pc,                 \* "scan", "tail" or "done"
    \* ---- classify_silences as a call (analysis_utils.py, lines 101-116)
    cl_silences,            \* argument: the silence list
    cl_thresholds,          \* arguments: <<total_duration, initial_delay, long_silence>>
    cl_result,              \* the label returned, Unset before the call
    \* ---- segment_audio (analysis_utils.py, lines 118-130)
    duration,               \* sound.duration, ticks
    segment_length,         \* ticks
    start_index,            \* index into np.arange(0, duration, segment_length)
    segments,               \* the list being built: <<start_time, end_time>> pairs
    first_segments,         \* what the first call returned
    seg_pc,                 \* "first", "second" or "done"
    \* ---- average_score / analyze_segment (analysis_utils.py, lines 133-177)
    sc_pc,                  \* position in average_score
    temp_files,             \* temporary files created by the call that exist
    script_exists,          \* whether script_content.praat can be opened
    score_index,            \* argument of average_score
    n_segments,             \* len(segments), line 167
    seg_no,                 \* the segment of the loop of line 169, from 1
    scores,                 \* line 168
    sc_result,              \* what average_score returned
    sc_raised               \* whether an exception left average_score

pipeVars == <<pc, tmp_files, audio_file_path, pitch_analysis_result, pitch_result,
              volume_result, silence_result, pronunciation_score, articulation_rate,
              analysis_results, failed_at, response>>

silVars == <<times, intensity_values, frame, current_silence, silences, sil_pc>>

clVars == <<cl_silences, cl_thresholds, cl_result>>

segVars == <<duration, segment_length, start_index, segments, first_segments, seg_pc>>

scVars == <<sc_pc, temp_files, script_exists, score_index, n_segments, seg_no, scores,
            sc_result, sc_raised>>

vars == <<pipeVars, silVars, clVars, segVars, scVars>>

----------------------------------------------------------------------------
\* Values

\* n as a fixed-point number in tenths
Fixed(n) == n * 10

\* An optional number: a local that was never assigned, Python's None, or a float
NotRun == [tag |-> "unset", val |-> 0]
None == [tag |-> "none", val |-> 0]
Num(v) == [tag |-> "num", val |-> v]

Unset == "unset"

\* Largest pronunciation average the model feeds in, in tenths
MaxPron == 20
\* Largest articulation average the model feeds in, in tenths
MaxArt == 40

\* Pitch dispersions (Hz) the pitch analyzer is made to return
PitchValues == {0, 9, 10, 35, 60, 61}
\* Mean intensities (dB) the volume analyzer is made to see
IntensityMeans == {44, 45, 75, 76}
\* Pronunciation averages (tenths): the mean of unbounded tool tokens
PronValues == {0, 5, 8, 10, MaxPron}
\* Articulation averages (tenths)
ArtValues == {0, 29, 30, MaxArt}
\* Silence lists (seconds) analyze_silences is made to return
SilenceSamples == { <<>>,
                    << <<0, 3>> >>,
                    << <<0, 12>> >>,
                    << <<1, 9>>, <<10, 19>> >>,
                    << <<2, 4>>, <<6, 7>> >> }

----------------------------------------------------------------------------
\* analysis_utils.py: classifiers and score

\* classify_speaker, lines 37-43
classify_speaker(std_dev) ==
    IF std_dev.tag = "none" THEN "Unknown"
    ELSE IF 10 <= std_dev.val /\ std_dev.val <= 60 THEN "Balanced"
    ELSE "Unbalanced"

low_threshold == 45
high_threshold == 75

\* analyze_volume, lines 49-62, on the mean of the intensity contour
\* (None: the contour is empty)
analyze_volume(average_intensity) ==
    IF average_intensity.tag = "none" THEN "Unknown volume"
    ELSE IF average_intensity.val < low_threshold THEN "Volume too low"
    ELSE IF average_intensity.val > high_threshold THEN "Volume too loud"
    ELSE "Volume is ideal"

RECURSIVE SumDur(_)
\* sum(end - start for start, end in silences), line 105
SumDur(s) == IF s = <<>> THEN 0 ELSE (Head(s)[2] - Head(s)[1]) + SumDur(Tail(s))

RECURSIVE MaxDur(_)
\* max((end - start for start, end in silences), default=0), line 106
MaxDur(s) ==
    IF s = <<>> THEN 0
    ELSE IF Tail(s) = <<>> THEN Head(s)[2] - Head(s)[1]
    ELSE LET m == MaxDur(Tail(s))
             h == Head(s)[2] - Head(s)[1]
         IN IF h >= m THEN h ELSE m

\* classify_silences, lines 101-116
\* (sl: silences; the thresholds: total_duration, initial_delay, long_silence)
classify_silences(sl, total_thr, initial_thr, long_thr) ==
    IF sl = <<>> THEN "normal"
    ELSE LET total_silence_duration == SumDur(sl)
             longest_silence == MaxDur(sl)
             initial_delay == IF sl[1][1] = 0 THEN sl[1][1] ELSE 0
         IN IF longest_silence >= long_thr THEN "silence too long"
            ELSE IF total_silence_duration > total_thr THEN "too much silence"
            ELSE IF initial_delay >= initial_thr THEN "delay"
            ELSE "normal"

\* The defaults of classify_silences, line 101
total_duration_default == 15
initial_delay_default == 15
long_silence_default == 10

\* calculate_score, lines 180-184; both arguments and the result in tenths
calculate_score(positive, available) ==
    IF available = 0 THEN 0
    ELSE (positive * 100) \div available

----------------------------------------------------------------------------
\* comcopilotapp.py: perform_analysis

\* line 87
available_criteria_count == 5

\* The dictionary of lines 63-70
DefaultResults ==
    [pitch |-> "Error: Analysis failed",
     volume |-> "Error: Analysis failed",
     silence |-> "Error: Analysis failed",
     pronunciation |-> Num(0),
     articulation |-> Num(0),
     overall_wrapped |-> FALSE,
     overall_score |-> 0]

NoResponse == [status |-> 0, kind |-> "none", data |-> DefaultResults]

\* positive_count with pronunciation counted as a boolean, like its siblings
positive_count_boolean(pitch, volume, silence, pron, art) ==
      (IF pitch = "Balanced" THEN Fixed(1) ELSE 0)
    + (IF volume = "Volume is ideal" THEN Fixed(1) ELSE 0)
    + (IF silence = "normal" THEN Fixed(1) ELSE 0)
    + (IF pron.val >= Fixed(1) THEN Fixed(1) ELSE 0)
    + (IF art.val >= Fixed(3) THEN Fixed(1) ELSE 0)

\* Lines 88-92: the sum, in tenths. None * 1 and None >= 3 raise TypeError:
\* the sum is defined only for two numbers (see Aggregate).
positive_count(pitch, volume, silence, pron, art) ==
      (IF pitch = "Balanced" THEN Fixed(1) ELSE 0)
    + (IF volume = "Volume is ideal" THEN Fixed(1) ELSE 0)
    + (IF silence = "normal" THEN Fixed(1) ELSE 0)
    + pron.val * 1
    + (IF art.val >= Fixed(3) THEN Fixed(1) ELSE 0)

PipeInit ==
    /\ pc = "idle"
    /\ tmp_files = {}
    /\ audio_file_path = ""
    /\ pitch_analysis_result = NotRun
    /\ pitch_result = Unset
    /\ volume_result = Unset
    /\ silence_result = Unset
    /\ pronunciation_score = NotRun
    /\ articulation_rate = NotRun
    /\ analysis_results = DefaultResults
    /\ failed_at = "none"
    /\ response = NoResponse

\* analyze_video, lines 25-31: the upload is written to a temporary file;
\* a failing read or write reaches line 43.
Upload ==
    /\ UNCHANGED <<silVars, clVars, segVars, scVars>>
    /\ pc = "idle"
    /\ \E ok \in BOOLEAN :
         IF ok
         THEN /\ pc' = "convert"
              /\ tmp_files' = {"video"}
              /\ response' = response
         ELSE /\ pc' = "done"
              /\ tmp_files' = {"video"}
              /\ response' = [status |-> 500, kind |-> "detail", data |-> DefaultResults]
    /\ UNCHANGED <<audio_file_path, pitch_analysis_result, pitch_result, volume_result,
                   silence_result, pronunciation_score, articulation_rate,
                   analysis_results, failed_at>>

\* convert_video_to_audio, lines 47-56, and the branch of lines 34-36, 41-42
Convert ==
    /\ UNCHANGED <<silVars, clVars, segVars, scVars>>
    /\ pc = "convert"
    /\ \E ok \in BOOLEAN :
         IF ok
         THEN /\ audio_file_path' = "wav"
              /\ tmp_files' = tmp_files \cup {"audio"}
              /\ pc' = "load"
              /\ response' = response
         ELSE /\ audio_file_path' = ""
              \* cleanup_files([video_file_path, ""]), then JSONResponse(content=...)
              /\ tmp_files' = {}
              /\ pc' = "done"
              /\ response' = [status |-> 200, kind |-> "error", data |-> DefaultResults]
    /\ UNCHANGED <<pitch_analysis_result, pitch_result, volume_result, silence_result,
                   pronunciation_score, articulation_rate, analysis_results, failed_at>>

\* An exception inside the try of lines 72-103 reaches line 104
Raise(step) ==
    /\ failed_at' = step
    /\ pc' = "returned"

\* line 73
LoadSound ==
    /\ UNCHANGED <<silVars, clVars, segVars, scVars>>
    /\ pc = "load"
    /\ \E ok \in BOOLEAN :
         IF ok THEN pc' = "pitch" /\ failed_at' = failed_at
         ELSE Raise("sound")
    /\ UNCHANGED <<tmp_files, audio_file_path, pitch_analysis_result, pitch_result,
                   volume_result, silence_result, pronunciation_score, articulation_rate,
                   analysis_results, response>>

\* lines 75-79; analyze_pitch (lines 12-33) returns None or {"pitch": std_dev}
AnalyzePitch ==
    /\ UNCHANGED <<silVars, clVars, segVars, scVars>>
    /\ pc = "pitch"
    /\ \E r \in {None} \cup {Num(v) : v \in PitchValues} :
         /\ pitch_analysis_result' = r
         /\ pitch_result' = IF r.tag = "num" THEN classify_speaker(r)
                            ELSE "Error: Pitch analysis failed"
    /\ pc' = "volume"
    /\ UNCHANGED <<tmp_files, audio_file_path, volume_result, silence_result,
                   pronunciation_score, articulation_rate, analysis_results, failed_at,
                   response>>

\* line 81; analyze_volume has no try of its own (lines 45-62)
AnalyzeVolume ==
    /\ UNCHANGED <<silVars, clVars, segVars, scVars>>
    /\ pc = "volume"
    /\ \/ /\ \E m \in {None} \cup {Num(v) : v \in IntensityMeans} :
               volume_result' = analyze_volume(m)
          /\ pc' = "silence"
          /\ failed_at' = failed_at
       \/ /\ Raise("volume")
          /\ volume_result' = volume_result
    /\ UNCHANGED <<tmp_files, audio_file_path, pitch_analysis_result, pitch_result,
                   silence_result, pronunciation_score, articulation_rate,
                   analysis_results, response>>

\* lines 82-84; analyze_silences and segment_audio catch their own exceptions,
\* and the segments of line 84 are never read
AnalyzeSilence ==
    /\ UNCHANGED <<silVars, clVars, segVars, scVars>>
    /\ pc = "silence"
    /\ \E sl \in SilenceSamples :
         silence_result' = classify_silences(sl, total_duration_default,
                                             initial_delay_default, long_silence_default)
    /\ pc' = "pronunciation"
    /\ UNCHANGED <<tmp_files, audio_file_path, pitch_analysis_result, pitch_result,
                   volume_result, pronunciation_score, articulation_rate,
                   analysis_results, failed_at, response>>

\* line 85; average_score returns None, a mean, or raises
Pronunciation ==
    /\ UNCHANGED <<silVars, clVars, segVars, scVars>>
    /\ pc = "pronunciation"
    /\ \/ /\ \E r \in {None} \cup {Num(v) : v \in PronValues} : pronunciation_score' = r
          /\ pc' = "articulation"
          /\ failed_at' = failed_at
       \/ /\ Raise("pronunciation")
          /\ pronunciation_score' = pronunciation_score
    /\ UNCHANGED <<tmp_files, audio_file_path, pitch_analysis_result, pitch_result,
                   volume_result, silence_result, articulation_rate, analysis_results,
                   response>>

\* line 86
Articulation ==
    /\ UNCHANGED <<silVars, clVars, segVars, scVars>>
    /\ pc = "articulation"
    /\ \/ /\ \E r \in {None} \cup {Num(v) : v \in ArtValues} : articulation_rate' = r
          /\ pc' = "aggregate"
          /\ failed_at' = failed_at
       \/ /\ Raise("articulation")
          /\ articulation_rate' = articulation_rate
    /\ UNCHANGED <<tmp_files, audio_file_path, pitch_analysis_result, pitch_result,
                   volume_result, silence_result, pronunciation_score, analysis_results,
                   response>>

\* lines 87-103
Aggregate ==
    /\ UNCHANGED <<silVars, clVars, segVars, scVars>>
    /\ pc = "aggregate"
    /\ IF pronunciation_score.tag = "num" /\ articulation_rate.tag = "num"
       THEN LET positive_criteria_count ==
                    positive_count(pitch_result, volume_result, silence_result,
                                   pronunciation_score, articulation_rate)
                overall_score ==
                    calculate_score(positive_criteria_count, available_criteria_count)
            IN /\ analysis_results' =
                     [pitch |-> pitch_result,
                      volume |-> volume_result,
                      silence |-> silence_result,
                      pronunciation |-> pronunciation_score,
                      articulation |-> articulation_rate,
                      overall_wrapped |-> TRUE,
                      overall_score |-> overall_score]
               /\ pc' = "returned"
               /\ failed_at' = failed_at
       ELSE \* TypeError: None * 1 (line 91) or None >= 3 (line 92)
            /\ Raise("aggregate")
            /\ analysis_results' = analysis_results
    /\ UNCHANGED <<tmp_files, audio_file_path, pitch_analysis_result, pitch_result,
                   volume_result, silence_result, pronunciation_score, articulation_rate,
                   response>>

\* prepare_response_data, lines 110-121
prepare_response_data(results) == results

\* analyze_video, lines 38-42: the report, the cleanup and the response
Respond ==
    /\ UNCHANGED <<silVars, clVars, segVars, scVars>>
    /\ pc = "returned"
    /\ response' = [status |-> 200, kind |-> "report",
                    data |-> prepare_response_data(analysis_results)]
    /\ tmp_files' = {}
    /\ pc' = "done"
    /\ UNCHANGED <<audio_file_path, pitch_analysis_result, pitch_result, volume_result,
                   silence_result, pronunciation_score, articulation_rate,
                   analysis_results, failed_at>>

Next ==
    \/ Upload
    \/ Convert
    \/ LoadSound
    \/ AnalyzePitch
    \/ AnalyzeVolume
    \/ AnalyzeSilence
    \/ Pronunciation
    \/ Articulation
    \/ Aggregate
    \/ Respond

----------------------------------------------------------------------------
\* analysis_utils.py: the scan of analyze_silences, lines 77-95

\* Defaults of line 64; min_silence_duration is 0.5 s, in hundredths
silence_threshold == 40
min_silence_duration == 50

\* Longest contour the model scans
MaxFrames == 4
\* Gaps between two frames, hundredths of a second
Gaps == {1, 49, 50}
FirstTimes == {0, 3}
\* Intensities around the threshold
Levels == {39, 40}

RECURSIVE PrefixSum(_, _)
PrefixSum(g, k) == IF k = 0 THEN 0 ELSE g[k] + PrefixSum(g, k - 1)

SilIdle ==
    /\ times = <<>>
    /\ intensity_values = <<>>
    /\ frame = 1
    /\ current_silence = <<>>
    /\ silences = <<>>
    /\ sil_pc = "idle"

\* Lines 73-78: a contour with increasing times, nothing scanned yet
SilInit ==
    /\ \E n \in 0..MaxFrames :
         \E first \in FirstTimes, g \in [1..(n - 1) -> Gaps], v \in [1..n -> Levels] :
            /\ times = [k \in 1..n |-> first + PrefixSum(g, k - 1)]
            /\ intensity_values = v
    /\ frame = 1
    /\ current_silence = <<>>
    /\ silences = <<>>
    /\ sil_pc = "scan"

\* long_enough with a strict comparison
long_enough_strict(start, end) == end - start > min_silence_duration

\* The test of lines 86 and 92
long_enough(start, end) == end - start >= min_silence_duration

\* One iteration of the loop of lines 79-88
ScanFrame ==
    /\ sil_pc = "scan"
    /\ frame <= Len(times)
    /\ LET time == times[frame]
           value == intensity_values[frame]
       IN IF value < silence_threshold
          THEN /\ current_silence' = IF current_silence = <<>> THEN <<time>>
                                     ELSE current_silence
               /\ silences' = silences
          ELSE IF current_silence # <<>>
          THEN /\ silences' = IF long_enough(current_silence[1], time)
                              THEN Append(silences, <<current_silence[1], time>>)
                              ELSE silences
               /\ current_silence' = <<>>
          ELSE UNCHANGED <<current_silence, silences>>
    /\ frame' = frame + 1
    /\ UNCHANGED <<times, intensity_values, sil_pc>>
    /\ UNCHANGED <<pipeVars, clVars, segVars, scVars>>

\* Lines 90-95: the interval still open at the end, and the return
ScanTail ==
    /\ sil_pc = "scan"
    /\ frame > Len(times)
    /\ IF current_silence # <<>>
       THEN LET last == times[Len(times)]
            IN silences' = IF long_enough(current_silence[1], last)
                           THEN Append(silences, <<current_silence[1], last>>)
                           ELSE silences
       ELSE silences' = silences
    /\ sil_pc' = "done"
    /\ UNCHANGED <<times, intensity_values, frame, current_silence>>
    /\ UNCHANGED <<pipeVars, clVars, segVars, scVars>>

----------------------------------------------------------------------------
\* analysis_utils.py: classify_silences called with any thresholds

\* Most intervals in a list handed to the classifier
MaxIntervals == 2
\* Interval end points, seconds
TimeGrid == {0, 2, 8, 12, 14, 22, 30}
ThresholdValues == {0, 5, 10, 15}

Chronological(sl) ==
    /\ \A k \in 1..Len(sl) : sl[k][1] < sl[k][2]
    /\ \A k \in 1..(Len(sl) - 1) : sl[k][2] <= sl[k + 1][1]

SilenceLists ==
    { sl \in UNION { [1..n -> TimeGrid \X TimeGrid] : n \in 0..MaxIntervals } :
         Chronological(sl) }

ClIdle ==
    /\ cl_silences = <<>>
    /\ cl_thresholds = <<total_duration_default, initial_delay_default, long_silence_default>>
    /\ cl_result = "idle"

ClInit ==
    /\ cl_silences \in SilenceLists
    /\ cl_thresholds \in ThresholdValues \X ThresholdValues \X ThresholdValues
    /\ cl_result = Unset

ClassifyCall ==
    /\ cl_result = Unset
    /\ cl_result' = classify_silences(cl_silences, cl_thresholds[1], cl_thresholds[2],
                                      cl_thresholds[3])
    /\ UNCHANGED <<cl_silences, cl_thresholds>>
    /\ UNCHANGED <<pipeVars, silVars, segVars, scVars>>

----------------------------------------------------------------------------
\* analysis_utils.py: segment_audio, lines 118-130

\* Longest sound, ticks
MaxDuration == 7
\* Longest segment_length, ticks
MaxSegmentLength == 3

\* len(np.arange(0, stop, step)) = ceil(stop / step), step > 0
arange_len(stop, step) == IF stop <= 0 THEN 0 ELSE (stop + step - 1) \div step

\* end_time without the clamp to the sound's duration
end_time_unclamped(start_time, length, d) == start_time + length

\* Lines 122-124
end_time(start_time, length, d) ==
    IF start_time + length > d THEN d ELSE start_time + length

SegIdle ==
    /\ duration = 0
    /\ segment_length = 1
    /\ start_index = 0
    /\ segments = <<>>
    /\ first_segments = <<>>
    /\ seg_pc = "idle"

SegInit ==
    /\ duration \in 0..MaxDuration
    /\ segment_length \in 1..MaxSegmentLength
    /\ start_index = 0
    /\ segments = <<>>
    /\ first_segments = <<>>
    /\ seg_pc = "first"

\* One iteration of the loop of lines 121-126; extract_part keeps the times
SegmentStep ==
    /\ seg_pc \in {"first", "second"}
    /\ start_index < arange_len(duration, segment_length)
    /\ LET start_time == start_index * segment_length
       IN segments' = Append(segments,
                             <<start_time, end_time(start_time, segment_length, duration)>>)
    /\ start_index' = start_index + 1
    /\ UNCHANGED <<duration, segment_length, first_segments, seg_pc>>
    /\ UNCHANGED <<pipeVars, silVars, clVars, scVars>>

\* Line 127; the first call's list is kept and the function is called again
SegmentReturn ==
    /\ seg_pc \in {"first", "second"}
    /\ start_index = arange_len(duration, segment_length)
    /\ IF seg_pc = "first"
       THEN /\ first_segments' = segments
            /\ segments' = <<>>
            /\ start_index' = 0
            /\ seg_pc' = "second"
       ELSE /\ seg_pc' = "done"
            /\ UNCHANGED <<first_segments, segments, start_index>>
    /\ UNCHANGED <<duration, segment_length>>
    /\ UNCHANGED <<pipeVars, silVars, clVars, scVars>>

----------------------------------------------------------------------------
\* analysis_utils.py: average_score and analyze_segment, lines 133-177

\* Most segments of a sound
MaxSegments == 3
\* Token counts of the tool's output
TokenCounts == {10, 14, 15}
\* The token at score_index, tenths
TokenValues == {8, 10}
ScoreIndexes == {3, 14}

\* What average_score returns: nothing yet, None, or the mean num / den
NotReturned == [tag |-> "unset", num |-> 0, den |-> 1]
ScoreNone == [tag |-> "none", num |-> 0, den |-> 1]

RECURSIVE SeqSum(_)
SeqSum(q) == IF q = <<>> THEN 0 ELSE Head(q) + SeqSum(Tail(q))

\* np.mean(scores), line 175, as a fraction
Mean(q) == [tag |-> "num", num |-> SeqSum(q), den |-> Len(q)]

\* max(14, score_index), line 171
MinTokens(index) == IF index > 14 THEN index ELSE 14

ScIdle ==
    /\ sc_pc = "idle"
    /\ temp_files = {}
    /\ script_exists = TRUE
    /\ score_index = 14
    /\ n_segments = 0
    /\ seg_no = 1
    /\ scores = <<>>
    /\ sc_result = NotReturned
    /\ sc_raised = FALSE

ScInit ==
    /\ sc_pc = "open"
    /\ temp_files = {}
    /\ script_exists \in BOOLEAN
    /\ score_index \in ScoreIndexes
    /\ n_segments = 0
    /\ seg_no = 1
    /\ scores = <<>>
    /\ sc_result = NotReturned
    /\ sc_raised = FALSE

\* Lines 157-165: the script is read and copied to a temporary file
ScoreOpen ==
    /\ sc_pc = "open"
    /\ IF script_exists
       THEN /\ temp_files' = temp_files \cup {<<"sourcerun", 0>>}
            /\ sc_pc' = "sound"
            /\ sc_result' = sc_result
       ELSE /\ sc_result' = ScoreNone
            /\ sc_pc' = "done"
            /\ temp_files' = temp_files
    /\ UNCHANGED <<script_exists, score_index, n_segments, seg_no, scores, sc_raised>>
    /\ UNCHANGED <<pipeVars, silVars, clVars, segVars>>

\* Lines 166-168: the sound is loaded (which may raise) and cut
ScoreLoad ==
    /\ sc_pc = "sound"
    /\ \/ /\ \E n \in 0..MaxSegments : n_segments' = n
          /\ sc_pc' = "loop"
          /\ sc_raised' = sc_raised
       \/ /\ sc_raised' = TRUE
          /\ sc_pc' = "done"
          /\ n_segments' = n_segments
    /\ UNCHANGED <<temp_files, script_exists, score_index, seg_no, scores, sc_result>>
    /\ UNCHANGED <<pipeVars, silVars, clVars, segVars>>

\* analyze_segment, lines 134-146: the two temporary files are created and the
\* segment is saved (which may raise)
SegmentSave ==
    /\ sc_pc = "loop"
    /\ seg_no <= n_segments
    /\ IF script_exists
       THEN /\ temp_files' = temp_files \cup {<<"script", seg_no>>, <<"audio", seg_no>>}
            /\ \E ok \in BOOLEAN :
                 IF ok THEN sc_pc' = "run" /\ sc_raised' = sc_raised
                 ELSE sc_pc' = "done" /\ sc_raised' = TRUE
       ELSE \* line 139 returns None, and len(None) raises at line 171
            /\ temp_files' = temp_files
            /\ sc_pc' = "done"
            /\ sc_raised' = TRUE
    /\ UNCHANGED <<script_exists, score_index, n_segments, seg_no, scores, sc_result>>
    /\ UNCHANGED <<pipeVars, silVars, clVars, segVars>>

\* analyze_segment, lines 147-153, and lines 171-172 of average_score
SegmentRun ==
    /\ sc_pc = "run"
    /\ \/ \* run_file raises: lines 148 and 150 are not reached
          /\ sc_raised' = TRUE
          /\ sc_pc' = "done"
          /\ UNCHANGED <<temp_files, scores, seg_no>>
       \/ \* the output cannot be parsed (objects[1], float(...)): after the removals
          /\ temp_files' = temp_files \ {<<"script", seg_no>>, <<"audio", seg_no>>}
          /\ sc_raised' = TRUE
          /\ sc_pc' = "done"
          /\ UNCHANGED <<scores, seg_no>>
       \/ /\ temp_files' = temp_files \ {<<"script", seg_no>>, <<"audio", seg_no>>}
          /\ \E count \in TokenCounts, v \in TokenValues :
               scores' = IF count > MinTokens(score_index) THEN Append(scores, v)
                         ELSE scores
          /\ seg_no' = seg_no + 1
          /\ sc_pc' = "loop"
          /\ sc_raised' = sc_raised
    /\ UNCHANGED <<script_exists, score_index, n_segments, sc_result>>
    /\ UNCHANGED <<pipeVars, silVars, clVars, segVars>>

\* Lines 173-177
ScoreFinish ==
    /\ sc_pc = "loop"
    /\ seg_no > n_segments
    /\ IF scores = <<>>
       THEN /\ sc_result' = ScoreNone
            /\ temp_files' = temp_files
       ELSE /\ sc_result' = Mean(scores)
            /\ temp_files' = temp_files \ {<<"sourcerun", 0>>}
    /\ sc_pc' = "done"
    /\ UNCHANGED <<script_exists, score_index, n_segments, seg_no, scores, sc_raised>>
    /\ UNCHANGED <<pipeVars, silVars, clVars, segVars>>

----------------------------------------------------------------------------
\* Properties of the request pipeline (Spec)

Returned == pc \in {"returned", "done"} /\ response.kind \in {"none", "report"}

Bool10(b) == IF b THEN Fixed(1) ELSE 0

\* C1: when the pronunciation average p and the articulation average a are both
\* numbers, positive_count = [pitch = "Balanced"] + [volume = "Volume is ideal"]
\* + [silence = "normal"] + p + [a >= 3] and overall_score = 100 * positive_count / 5,
\* reported wrapped as {"score": ...}; p enters with its raw value.
C1_ScoreFormula ==
    (Returned /\ pronunciation_score.tag = "num" /\ articulation_rate.tag = "num") =>
        /\ failed_at = "none"
        /\ analysis_results.overall_wrapped
        /\ analysis_results.overall_score * 5 =
             100 * ( Bool10(pitch_result = "Balanced")
                   + Bool10(volume_result = "Volume is ideal")
                   + Bool10(silence_result = "normal")
                   + pronunciation_score.val
                   + Bool10(articulation_rate.val >= Fixed(3)) )

\* C1 witness: Balanced / Volume is ideal / normal / 0.8 / 4 gives 96.0
C1_Witness ==
    /\ Returned
    /\ pitch_result = "Balanced"
    /\ volume_result = "Volume is ideal"
    /\ silence_result = "normal"
    /\ pronunciation_score = Num(8)
    /\ articulation_rate = Num(Fixed(4))
    /\ analysis_results.overall_score = Fixed(96)

\* C2: a pronunciation or articulation average that is None contributes 0, the
\* aggregation does not raise, and the other criteria still count:
\* overall_score = 100 * (sum of the remaining contributions) / 5.
C2_MissingContributesZero ==
    (Returned /\ articulation_rate.tag # "unset"
              /\ (pronunciation_score = None \/ articulation_rate = None)) =>
        /\ failed_at = "none"
        /\ analysis_results.overall_score * 5 =
             100 * ( Bool10(pitch_result = "Balanced")
                   + Bool10(volume_result = "Volume is ideal")
                   + Bool10(silence_result = "normal")
                   + (IF pronunciation_score.tag = "num" THEN pronunciation_score.val ELSE 0)
                   + Bool10(articulation_rate.tag = "num"
                            /\ articulation_rate.val >= Fixed(3)) )

\* C3: a failing analysis degrades only its own criterion: every criterion whose
\* analysis produced a label or a value carries it in the returned report.
C3_FailureIsolated ==
    Returned =>
        /\ (pitch_result # Unset => analysis_results.pitch = pitch_result)
        /\ (volume_result # Unset => analysis_results.volume = volume_result)
        /\ (silence_result # Unset => analysis_results.silence = silence_result)
        /\ (pronunciation_score.tag = "num" =>
                analysis_results.pronunciation = pronunciation_score)
        /\ (articulation_rate.tag = "num" =>
                analysis_results.articulation = articulation_rate)

\* C4: the overall score of every report lies in 0..100.
C4_ScoreInRange ==
    Returned =>
        /\ 0 <= analysis_results.overall_score
        /\ analysis_results.overall_score <= Fixed(100)

\* C7: in a completed analysis the pitch criterion is "Unknown" when the pitch
\* analyzer returned None, "Balanced" iff 10 <= v <= 60 for a dispersion v and
\* "Unbalanced" otherwise: always one of the three labels.
C7_PitchLabel ==
    (Returned /\ failed_at = "none" /\ analysis_results.overall_wrapped) =>
        /\ (pitch_analysis_result = None => analysis_results.pitch = "Unknown")
        /\ (pitch_analysis_result.tag = "num" =>
               analysis_results.pitch =
                  (IF 10 <= pitch_analysis_result.val /\ pitch_analysis_result.val <= 60
                   THEN "Balanced" ELSE "Unbalanced"))
        /\ analysis_results.pitch \in {"Balanced", "Unbalanced", "Unknown"}

\* C9: when the conversion to audio fails the handler answers with the error
\* object and a failure status, never a success status, and runs no analysis.
C9_DecodeFailureStatus ==
    (pc = "done" /\ response.kind = "error") =>
        /\ response.status \notin 200..299
        /\ pitch_result = Unset
        /\ analysis_results = DefaultResults

----------------------------------------------------------------------------
\* Properties of classify_silences (SpecClassify)

\* The classification as the four checks in priority order, the delay check on the
\* first interval's own duration
ClaimedSilenceLabel(sl, total_thr, initial_thr, long_thr) ==
    IF sl = <<>> THEN "normal"
    ELSE IF \E k \in 1..Len(sl) : sl[k][2] - sl[k][1] >= long_thr THEN "silence too long"
    ELSE IF SumDur(sl) > total_thr THEN "too much silence"
    ELSE IF sl[1][1] = 0 /\ sl[1][2] - sl[1][1] >= initial_thr THEN "delay"
    ELSE "normal"

\* C5: for every chronological silence list and every threshold triple the label
\* is that of the four checks in priority order, first match wins: empty ->
\* "normal"; an interval >= long_silence -> "silence too long"; a sum >
\* total_duration -> "too much silence"; a first interval that starts at 0 and
\* lasts >= initial_delay -> "delay"; else "normal".
C5_SilencePriority ==
    cl_result \notin {Unset, "idle"} =>
        cl_result = ClaimedSilenceLabel(cl_silences, cl_thresholds[1], cl_thresholds[2],
                                        cl_thresholds[3])

----------------------------------------------------------------------------
\* Properties of the scan of analyze_silences (SpecSilence)

Below(k) == intensity_values[k] < silence_threshold

\* The maximal runs of consecutive frames below the threshold, as index pairs
Runs ==
    { r \in (1..Len(times)) \X (1..Len(times)) :
        /\ r[1] <= r[2]
        /\ \A k \in r[1]..r[2] : Below(k)
        /\ (r[1] = 1 \/ ~Below(r[1] - 1))
        /\ (r[2] = Len(times) \/ ~Below(r[2] + 1)) }

\* A run opens at its first frame and closes at the next frame, or at the last
\* timestamp when the contour ends inside it
RunInterval(r) ==
    <<times[r[1]], IF r[2] < Len(times) THEN times[r[2] + 1] ELSE times[Len(times)]>>

ExpectedSilences ==
    { RunInterval(r) : r \in { q \in Runs :
          RunInterval(q)[2] - RunInterval(q)[1] >= min_silence_duration } }

\* C6: the scan keeps one open interval, which is open exactly inside a run and
\* starts at the run's first frame, and it returns exactly the maximal runs of
\* below-threshold frames that last >= min_silence_duration, in chronological
\* order and pairwise non-overlapping.
C6_SilenceRuns ==
    /\ (sil_pc = "scan" =>
          /\ (current_silence # <<>>) = (frame > 1 /\ Below(frame - 1))
          /\ (current_silence # <<>> =>
                \E i \in 1..(frame - 1) :
                   /\ current_silence[1] = times[i]
                   /\ \A k \in i..(frame - 1) : Below(k)
                   /\ (i = 1 \/ ~Below(i - 1))))
    /\ (sil_pc = "done" =>
          /\ {silences[k] : k \in 1..Len(silences)} = ExpectedSilences
          /\ Len(silences) = Cardinality(ExpectedSilences)
          /\ \A k \in 1..Len(silences) : silences[k][1] < silences[k][2]
          /\ \A k \in 1..(Len(silences) - 1) : silences[k][2] <= silences[k + 1][1])

\* C6 witness: a run of exactly 0.5 s was emitted and a run of 0.49 s was not
C6_Witness ==
    /\ sil_pc = "done"
    /\ \E k \in 1..Len(silences) : silences[k][2] - silences[k][1] = min_silence_duration
    /\ \E r \in Runs : /\ RunInterval(r)[2] - RunInterval(r)[1] = min_silence_duration - 1
                       /\ \A k \in 1..Len(silences) : silences[k] # RunInterval(r)

----------------------------------------------------------------------------
\* Properties of segment_audio (SpecSegment)

\* The segments in q start at 0, follow each other without gap or overlap, end
\* at d, last at most len each and exactly len but for the last
Covers(q, d, len) ==
    /\ (d = 0 => q = <<>>)
    /\ (d > 0 => q # <<>>)
    /\ (q # <<>> => q[1][1] = 0 /\ q[Len(q)][2] = d)
    /\ \A k \in 1..(Len(q) - 1) : q[k + 1][1] = q[k][2]
    /\ \A k \in 1..Len(q) : q[k][1] < q[k][2] /\ q[k][2] - q[k][1] <= len
    /\ \A k \in 1..(Len(q) - 1) : q[k][2] - q[k][1] = len
    /\ SumDur(q) = d

\* C8: for every duration d >= 0 and segment_length L > 0 the segments start at 0,
\* each starts where the previous one ends, the last ends at d, none is longer
\* than L and only the last may be shorter, so the durations sum to d; d = 0
\* gives no segment; a second call returns the same boundaries.
C8_SegmentsCover ==
    /\ (seg_pc \in {"second", "done"} => Covers(first_segments, duration, segment_length))
    /\ (seg_pc = "done" => /\ Covers(segments, duration, segment_length)
                           /\ segments = first_segments)

\* C8 witness: several segments, the last one shorter than segment_length
C8_Witness ==
    /\ seg_pc = "done"
    /\ Len(segments) >= 2
    /\ segments[Len(segments)][2] - segments[Len(segments)][1] < segment_length

----------------------------------------------------------------------------
\* Properties of average_score (SpecScore)

\* C10: when average_score has returned or raised, no temporary file that the
\* call created still exists.
C10_NoTempLeft == sc_pc = "done" => temp_files = {}

----------------------------------------------------------------------------
\* Specifications

Init == PipeInit /\ SilIdle /\ ClIdle /\ SegIdle /\ ScIdle

Spec == Init /\ [][Next]_vars

InitSilence == PipeInit /\ SilInit /\ ClIdle /\ SegIdle /\ ScIdle

NextSilence ==
    \/ ScanFrame
    \/ ScanTail

SpecSilence == InitSilence /\ [][NextSilence]_vars

InitClassify == PipeInit /\ SilIdle /\ ClInit /\ SegIdle /\ ScIdle

NextClassify == ClassifyCall

SpecClassify == InitClassify /\ [][NextClassify]_vars

InitSegment == PipeInit /\ SilIdle /\ ClIdle /\ SegInit /\ ScIdle

NextSegment ==
    \/ SegmentStep
    \/ SegmentReturn

SpecSegment == InitSegment /\ [][NextSegment]_vars

InitScore == PipeInit /\ SilIdle /\ ClIdle /\ SegIdle /\ ScInit

NextScore ==
    \/ ScoreOpen
    \/ ScoreLoad
    \/ SegmentSave
    \/ SegmentRun
    \/ ScoreFinish

SpecScore == InitScore /\ [][NextScore]_vars

====
